---- MODULE Spec2Model ----
(***************************************************************************)
(* Model of app/models.py: the User and Post entities, the two password    *)
(* methods of User and the load_user callback, together with the storage   *)
(* session operations (add + commit) that the declared columns constrain.  *)
(*                                                                         *)
(* Optional values (Optional[str], a primary key not yet assigned, the     *)
(* result of Session.get) are sets: {} is None, {v} is the value v.        *)
(* A str is the sequence of its Unicode code points.                       *)
(***************************************************************************)
EXTENDS Integers, Sequences, FiniteSets

VARIABLES objs, users, posts, now, last, last_set, auto_ts, set_back,
          fk_enforced

vars ==
    <<objs, users, posts, now, last, last_set, auto_ts, set_back, fk_enforced>>

\* ------------------------------------------------------------------ bounds
MaxObjs == 2
MaxPosts == 2
MaxClock == 2

\* ------------------------------------------------------ optional values
None == {}
Some(v) == {v}
The(o) == CHOOSE v \in o : TRUE

\* ------------------------------------------------------------ input sets
Usernames == {"alice", "bob"}
Emails == {"a@x", "b@x"}
Passwords == {"p", "q"}
Bodies == {"hi"}
UserPairs == {<<"alice", "a@x">>, <<"bob", "b@x">>}

\* The code points of the ASCII characters the identifiers below are
\* written with.
CharCodes ==
    {<<"\t", 9>>, <<"\n", 10>>, <<"\f", 12>>, <<"\r", 13>>, <<" ", 32>>,
     <<"+", 43>>, <<"-", 45>>, <<".", 46>>, <<"0", 48>>, <<"1", 49>>,
     <<"2", 50>>, <<"3", 51>>, <<"_", 95>>, <<"a", 97>>, <<"x", 120>>}

Ord(c) == (CHOOSE e \in CharCodes : e[1] = c)[2]

Codes(s) == [i \in 1..Len(s) |-> Ord(s[i])]

\* str(sys.int_info.default_max_str_digits): the longest digit string int()
\* converts.
MaxStrDigits == 4300

\* The decimal numeral made of MaxStrDigits + 1 ones.
LongId == [i \in 1..(MaxStrDigits + 1) |-> 49]

\* Identifiers handed to load_user: decimal literals in the forms int()
\* accepts (whitespace, sign, leading zeros, underscores, non-ASCII
\* whitespace and decimal digits) and strings it rejects.
IdStrings ==
    {Codes(<<"1">>),
     Codes(<<"2">>),
     Codes(<<"3">>),
     Codes(<<"0">>),
     Codes(<<"1", "0">>),
     Codes(<<" ", "1">>),
     Codes(<<"2", " ">>),
     Codes(<<"\t", "1", "\n">>),
     Codes(<<"\r", "1">>),
     Codes(<<"\f", "1">>),
     Codes(<<"+", "1">>),
     Codes(<<"-", "1">>),
     Codes(<<"-", "0">>),
     Codes(<<"0", "1">>),
     Codes(<<"0", "0", "2">>),
     Codes(<<"1", "_", "0">>),
     Codes(<<"0", "_", "2">>),
     Codes(<<>>),
     Codes(<<" ">>),
     Codes(<<"a">>),
     Codes(<<"1", "a">>),
     Codes(<<"1", ".", "0">>),
     Codes(<<"_", "1">>),
     Codes(<<"1", "_">>),
     Codes(<<"1", "_", "_", "0">>),
     Codes(<<"+", "-", "1">>),
     Codes(<<"-", " ", "1">>),
     Codes(<<"1", " ", "2">>),
     Codes(<<"+">>),
     Codes(<<"0", "x", "1">>),
     <<11, 49>>,
     <<49, 11>>,
     <<133, 49>>,
     <<160, 49>>,
     <<49, 12288>>,
     <<8195, 50>>,
     <<1633>>,
     <<65297>>,
     <<2407, 2408>>,
     <<1633, 95, 50>>,
     <<45, 1634>>,
     <<28, 49>>,
     <<8722, 49>>,
     <<178>>}

\* ------------------------------------------------- module name resolution
\* Names bound at module level: the imports of lines 1-6 and the three
\* definitions of the module.  A function body that reads any other global
\* name (and no builtin of that name exists) raises NameError when it runs.
ModuleNames ==
    {"datetime", "timezone", "Optional", "sa", "so", "login", "db",
     "UserMixin", "User", "load_user", "Post"}

BuiltinNames == {"int"}

Resolves(name) == name \in ModuleNames \cup BuiltinNames

\* ------------------------------------------------------- password methods
\* werkzeug's primitives, reached only if the names resolve: a salted
\* one-way digest tagged with its method, and its verification, which fails
\* with AttributeError on a None hash.
generate_password_hash(password) == <<"scrypt", "salt", password>>

check_password_hash(pwhash, password) ==
    IF pwhash = None
    THEN [exc |-> "AttributeError", ret |-> FALSE]
    ELSE [exc |-> "", ret |-> (The(pwhash) = generate_password_hash(password))]

\* set_password writing the username as well.
set_password_Mut(u, password) ==
    [exc |-> "NameError", obj |-> [u EXCEPT !.username = password]]

\* User.set_password: the object it leaves and the exception it raises
\* ("" when it returns).
set_password(u, password) ==
    IF Resolves("generate_password_hash")
    THEN [exc |-> "",
          obj |-> [u EXCEPT !.password_hash =
                                Some(generate_password_hash(password))]]
    ELSE [exc |-> "NameError", obj |-> u]

\* check_password accepting every password.
check_password_Mut(u, password) ==
    [exc |-> "", ret |-> TRUE]

\* User.check_password: the boolean it returns and the exception it raises.
check_password(u, password) ==
    IF Resolves("check_password_hash")
    THEN check_password_hash(u.password_hash, password)
    ELSE [exc |-> "NameError", ret |-> FALSE]

\* ------------------------------------------------------------ int(id)
\* The code points int() drops from both ends of its argument.
Whitespace ==
    {9, 10, 11, 12, 13, 32, 133, 160, 5760, 8192, 8193, 8194, 8195, 8196,
     8197, 8198, 8199, 8200, 8201, 8202, 8232, 8233, 8239, 8287, 12288}

\* The code point of the digit zero of every Unicode decimal digit block
\* (Unicode 14.0); the ten digits of a block are consecutive.
DigitZeros ==
    {48, 1632, 1776, 1984, 2406, 2534, 2662, 2790, 2918, 3046, 3174,
     3302, 3430, 3558, 3664, 3792, 3872, 4160, 4240, 6112, 6160, 6470,
     6608, 6784, 6800, 6992, 7088, 7232, 7248, 42528, 43216, 43264,
     43472, 43504, 43600, 44016, 65296, 66720, 68912, 69734, 69872,
     69942, 70096, 70384, 70736, 70864, 71248, 71360, 71472, 71904,
     72016, 72784, 73040, 73120, 92768, 92864, 93008, 120782, 120792,
     120802, 120812, 120822, 123200, 123632, 125264, 130032}

Digits == UNION {z..(z + 9) : z \in DigitZeros}

\* Whether a code point is a decimal digit, ASCII decided first.
IsDigit(c) == IF c < 128 THEN c \in 48..57 ELSE c \in Digits

DigitVal(c) ==
    IF c < 128 THEN c - 48
    ELSE c - (CHOOSE z \in DigitZeros : c \in z..(z + 9))

Underscore == {95}
Signs == {43, 45}

RECURSIVE LStrip(_)
LStrip(s) == IF s # <<>> /\ Head(s) \in Whitespace THEN LStrip(Tail(s)) ELSE s

RECURSIVE RStrip(_)
RStrip(s) ==
    IF s # <<>> /\ s[Len(s)] \in Whitespace
    THEN RStrip(SubSeq(s, 1, Len(s) - 1))
    ELSE s

Strip(s) == RStrip(LStrip(s))

\* The digits part of a literal: non-empty, digits with single underscores
\* strictly between digits.
ValidDigits(d) ==
    /\ d # <<>>
    /\ \A i \in 1..Len(d) : IsDigit(d[i]) \/ d[i] \in Underscore
    /\ d[1] \notin Underscore
    /\ d[Len(d)] \notin Underscore
    /\ \A i \in 1..(Len(d) - 1) :
          ~(d[i] \in Underscore /\ d[i + 1] \in Underscore)

\* The number of digits of a literal, underscores left out.
DigitCount(d) == Cardinality({i \in 1..Len(d) : IsDigit(d[i])})

RECURSIVE DigitsValue(_)
DigitsValue(d) ==
    IF d = <<>> THEN 0
    ELSE IF d[Len(d)] \in Underscore
         THEN DigitsValue(SubSeq(d, 1, Len(d) - 1))
    ELSE 10 * DigitsValue(SubSeq(d, 1, Len(d) - 1)) + DigitVal(d[Len(d)])

\* int(s) with the sign dropped.
ParseInt_Mut(s) ==
    LET t == Strip(s)
        signed == t # <<>> /\ Head(t) \in Signs
        d == IF signed THEN Tail(t) ELSE t
    IN IF DigitCount(d) <= MaxStrDigits /\ ValidDigits(d)
       THEN [ok |-> TRUE, val |-> DigitsValue(d)]
       ELSE [ok |-> FALSE, val |-> 0]

\* int(s) for a str s in base 10: surrounding whitespace is dropped, one
\* optional sign, then the digits, at most MaxStrDigits of them.
\* ok = FALSE is ValueError.
ParseInt(s) ==
    LET t == Strip(s)
        signed == t # <<>> /\ Head(t) \in Signs
        d == IF signed THEN Tail(t) ELSE t
        v == DigitsValue(d)
    IN IF DigitCount(d) <= MaxStrDigits /\ ValidDigits(d)
       THEN [ok |-> TRUE, val |-> IF signed /\ Head(t) = 45 THEN 0 - v ELSE v]
       ELSE [ok |-> FALSE, val |-> 0]

\* ------------------------------------------------------------ load_user
\* db.session.get(User, n): the row with primary key n, or None.
SessionGet(store, n) == {u \in store : u.id = Some(n)}

\* load_user removing the row it returns.
load_user_Pop(id, store) ==
    LET n == ParseInt(id)
    IN IF n.ok
       THEN [exc |-> "", ret |-> SessionGet(store, n.val),
             store |-> store \ SessionGet(store, n.val)]
       ELSE [exc |-> "ValueError", ret |-> None, store |-> store]

\* load_user answering None to an identifier it cannot parse.
load_user_Swallow(id, store) ==
    LET n == ParseInt(id)
    IN IF n.ok
       THEN [exc |-> "", ret |-> SessionGet(store, n.val), store |-> store]
       ELSE [exc |-> "", ret |-> None, store |-> store]

\* load_user(id): what it returns or raises, and the store it leaves.
load_user(id, store) ==
    LET n == ParseInt(id)
    IN IF n.ok
       THEN [exc |-> "", ret |-> SessionGet(store, n.val), store |-> store]
       ELSE [exc |-> "ValueError", ret |-> None, store |-> store]

\* ------------------------------------------------------- schema of User
\* The username constraint alone.
UserUniqueOK_Mut(store, u) ==
    \A r \in store : r.username # u.username

\* unique=True on username and on email: an INSERT is rejected when a
\* stored row already holds the same username or the same email.
UserUniqueOK(store, u) ==
    \A r \in store : r.username # u.username /\ r.email # u.email

\* Integer primary key generated by the storage layer.
NextId(rows) ==
    IF rows = {} THEN 1
    ELSE 1 + (CHOOSE m \in {The(r.id) : r \in rows} :
                  \A r \in rows : The(r.id) <= m)

\* ------------------------------------------------------- schema of Post
\* A default evaluated once, when the module is imported.
DefaultTimestamp_Mut(clock) == 0

\* default=lambda: datetime.now(timezone.utc), called when the row is
\* inserted without a timestamp.
DefaultTimestamp(clock) == clock

\* NOT NULL alone, without the foreign key.
PostUserIdOK_Mut(store, user_id) ==
    user_id # None

\* user_id: Mapped[int] with ForeignKey(User.id).  NOT NULL is checked by
\* every engine.  The foreign key is declared, and checked at insert only
\* by an engine that enforces foreign keys (fk_enforced): the module does
\* not choose the engine, and SQLite by default does not check it.
PostUserIdOK(store, user_id) ==
    /\ user_id # None
    /\ fk_enforced => \E u \in store : u.id = user_id

\* ---------------------------------------------------------------- state
NoCall ==
    [op |-> "", h |-> 0, pw |-> "", s |-> <<>>, exc |-> "",
     ret |-> None, flag |-> FALSE]

Init ==
    /\ objs = <<>>
    /\ users = {}
    /\ posts = {}
    /\ now = 0
    /\ last = NoCall
    /\ last_set = <<>>
    /\ auto_ts = {}
    /\ set_back = FALSE
    /\ fk_enforced \in BOOLEAN

\* User(username=..., email=...): a new in-memory object, not yet stored.
NewUser(username, email) ==
    /\ Len(objs) < MaxObjs
    /\ objs' = Append(objs, [id |-> None, username |-> username,
                             email |-> email, password_hash |-> None])
    /\ last_set' = Append(last_set, None)
    /\ last' = [NoCall EXCEPT !.op = "User", !.h = Len(objs) + 1]
    /\ UNCHANGED <<users, posts, now, auto_ts, set_back, fk_enforced>>

\* db.session.add(u); db.session.commit() for an object not yet stored.
\* A constraint failure raises IntegrityError and the insert is rolled back.
AddCommitUser(h) ==
    /\ h \in 1..Len(objs)
    /\ objs[h].id = None
    /\ IF UserUniqueOK(users, objs[h])
       THEN LET row == [objs[h] EXCEPT !.id = Some(NextId(users))]
            IN /\ users' = users \cup {row}
               /\ objs' = [objs EXCEPT ![h] = row]
               /\ last' = [NoCall EXCEPT !.op = "commit_user", !.h = h]
       ELSE /\ UNCHANGED <<users, objs>>
            /\ last' = [NoCall EXCEPT !.op = "commit_user", !.h = h,
                                      !.exc = "IntegrityError"]
    /\ UNCHANGED <<posts, now, last_set, auto_ts, set_back, fk_enforced>>

\* u.set_password(password) on the in-memory object h.
CallSetPassword(h, password) ==
    /\ h \in 1..Len(objs)
    /\ LET r == set_password(objs[h], password)
       IN /\ objs' = [objs EXCEPT ![h] = r.obj]
          /\ last' = [NoCall EXCEPT !.op = "set_password", !.h = h,
                                    !.pw = password, !.exc = r.exc]
    /\ last_set' = [last_set EXCEPT ![h] = Some(password)]
    /\ UNCHANGED <<users, posts, now, auto_ts, set_back, fk_enforced>>

\* u.check_password(password) on the in-memory object h.
CallCheckPassword(h, password) ==
    /\ h \in 1..Len(objs)
    /\ LET r == check_password(objs[h], password)
       IN last' = [NoCall EXCEPT !.op = "check_password", !.h = h,
                                 !.pw = password, !.exc = r.exc,
                                 !.flag = r.ret]
    /\ UNCHANGED <<objs, users, posts, now, last_set, auto_ts, set_back,
                 fk_enforced>>

\* load_user(id), as the login middleware calls it.
CallLoadUser(id) ==
    /\ LET r == load_user(id, users)
       IN /\ users' = r.store
          /\ last' = [NoCall EXCEPT !.op = "load_user", !.s = id,
                                    !.exc = r.exc, !.ret = r.ret]
    /\ UNCHANGED <<objs, posts, now, last_set, auto_ts, set_back,
                 fk_enforced>>

\* db.session.add(Post(body=..., user_id=..., [timestamp=...]));
\* db.session.commit().  timestamp = None means it was not supplied.
AddCommitPost(body, user_id, timestamp) ==
    /\ Cardinality(posts) < MaxPosts
    /\ IF PostUserIdOK(users, user_id)
       THEN LET ts == IF timestamp = None THEN DefaultTimestamp(now)
                      ELSE The(timestamp)
                pid == NextId(posts)
            IN /\ posts' = posts \cup {[id |-> Some(pid), body |-> body,
                                        timestamp |-> ts,
                                        user_id |-> user_id]}
               /\ auto_ts' = IF timestamp = None THEN auto_ts \cup {pid}
                             ELSE auto_ts
               /\ last' = [NoCall EXCEPT !.op = "commit_post", !.h = pid]
       ELSE /\ UNCHANGED <<posts, auto_ts>>
            /\ last' = [NoCall EXCEPT !.op = "commit_post",
                                      !.exc = "IntegrityError"]
    /\ UNCHANGED <<objs, users, now, last_set, set_back, fk_enforced>>

\* The system clock that datetime.now(timezone.utc) reads advances.
Tick ==
    /\ now < MaxClock
    /\ now' = now + 1
    /\ UNCHANGED <<objs, users, posts, last, last_set, auto_ts, set_back,
                 fk_enforced>>

\* The system clock is set to an earlier instant (a clock step): nothing in
\* the code keeps its readings monotone.  set_back records that it
\* happened.
ClockSetBack ==
    /\ now > 0
    /\ \E t \in 0..(now - 1) : now' = t
    /\ set_back' = TRUE
    /\ UNCHANGED <<objs, users, posts, last, last_set, auto_ts,
                 fk_enforced>>

\* ---------------------------------------------------- specifications
PostUserIds == {None} \cup {Some(i) : i \in 1..(MaxObjs + 1)}
PostTimestamps == {None} \cup {Some(t) : t \in 0..MaxClock}

\* Registration and lookup: users are created and stored, the middleware
\* looks identifiers up, posts are authored by the first user.
Next ==
    \/ \E un \in Usernames, em \in Emails : NewUser(un, em)
    \/ \E h \in 1..MaxObjs : AddCommitUser(h)
    \/ \E id \in IdStrings : CallLoadUser(id)
    \/ \E b \in Bodies : AddCommitPost(b, Some(1), None)

Spec == Init /\ [][Next]_vars

\* Lookup: the middleware looks up identifiers of every form, a numeral
\* longer than int() converts among them.
LookupIds == IdStrings \cup {LongId}

NextIds ==
    \/ \E pr \in UserPairs : NewUser(pr[1], pr[2])
    \/ \E h \in 1..MaxObjs : AddCommitUser(h)
    \/ \E id \in LookupIds : CallLoadUser(id)

SpecIds == Init /\ [][NextIds]_vars

\* Credentials: passwords are set and checked on in-memory users, stored
\* or not.
NextAuth ==
    \/ \E pr \in UserPairs : NewUser(pr[1], pr[2])
    \/ \E h \in 1..MaxObjs : AddCommitUser(h)
    \/ \E h \in 1..MaxObjs, p \in Passwords : CallSetPassword(h, p)
    \/ \E h \in 1..MaxObjs, p \in Passwords : CallCheckPassword(h, p)
    \/ \E b \in Bodies : AddCommitPost(b, Some(1), None)

SpecAuth == Init /\ [][NextAuth]_vars

\* Authoring: posts are inserted with any author reference.
NextPost ==
    \/ \E pr \in UserPairs : NewUser(pr[1], pr[2])
    \/ \E h \in 1..MaxObjs : AddCommitUser(h)
    \/ \E b \in Bodies, uid \in PostUserIds : AddCommitPost(b, uid, None)

SpecPost == Init /\ [][NextPost]_vars

\* Timestamps: posts of one author are inserted with and without a
\* timestamp while the clock advances.
NextClock ==
    \/ NewUser("alice", "a@x")
    \/ AddCommitUser(1)
    \/ \E b \in Bodies, ts \in PostTimestamps : AddCommitPost(b, Some(1), ts)
    \/ Tick
    \/ ClockSetBack

SpecClock == Init /\ [][NextClock]_vars

\* ------------------------------------------------------------- claims
\* The identifiers of IdStrings that int() converts, each with the integer
\* it denotes.
IntLiterals ==
    {<< Codes(<<"1">>), 1 >>,
     << Codes(<<"2">>), 2 >>,
     << Codes(<<"3">>), 3 >>,
     << Codes(<<"0">>), 0 >>,
     << Codes(<<"1", "0">>), 10 >>,
     << Codes(<<" ", "1">>), 1 >>,
     << Codes(<<"2", " ">>), 2 >>,
     << Codes(<<"\t", "1", "\n">>), 1 >>,
     << Codes(<<"\r", "1">>), 1 >>,
     << Codes(<<"\f", "1">>), 1 >>,
     << Codes(<<"+", "1">>), 1 >>,
     << Codes(<<"-", "1">>), -1 >>,
     << Codes(<<"-", "0">>), 0 >>,
     << Codes(<<"0", "1">>), 1 >>,
     << Codes(<<"0", "0", "2">>), 2 >>,
     << Codes(<<"1", "_", "0">>), 10 >>,
     << Codes(<<"0", "_", "2">>), 2 >>,
     << <<11, 49>>, 1 >>,
     << <<49, 11>>, 1 >>,
     << <<133, 49>>, 1 >>,
     << <<160, 49>>, 1 >>,
     << <<49, 12288>>, 1 >>,
     << <<8195, 50>>, 2 >>,
     << <<1633>>, 1 >>,
     << <<65297>>, 1 >>,
     << <<2407, 2408>>, 12 >>,
     << <<1633, 95, 50>>, 12 >>,
     << <<45, 1634>>, -2 >>}

IsLiteral(s) == \E e \in IntLiterals : e[1] = s

\* The identifiers that are the numeral of an integer: those int()
\* converts and the numeral too long for it.
EncodesInteger(s) == IsLiteral(s) \/ s = LongId
LiteralValue(s) == (CHOOSE e \in IntLiterals : e[1] = s)[2]

\* C1: once set_password(p) is the most recent set_password call on a
\* User, check_password(q) returns true if q = p and false if q # p.
C1_SetThenCheck ==
    (last.op = "check_password" /\ last_set[last.h] # None)
        => /\ last.exc = ""
           /\ last.flag = (last.pw = The(last_set[last.h]))

C2_UniqueRows ==
    \A r1, r2 \in users :
        (r1.username = r2.username \/ r1.email = r2.email) => r1 = r2

C2_DuplicateRejected ==
    (last'.op = "commit_user"
        /\ \E r \in users : \/ r.username = objs[last'.h].username
                            \/ r.email = objs[last'.h].email)
      => (last'.exc = "IntegrityError" /\ users' = users)

\* C2: no two stored User rows share a username or an email, and storing
\* a User whose username or email is already stored raises IntegrityError
\* and stores nothing.
C2_Uniqueness == []C2_UniqueRows /\ [][C2_DuplicateRejected]_vars

C2_Witness ==
    /\ last.op = "commit_user"
    /\ last.exc = "IntegrityError"
    /\ \E r \in users : /\ r.email = objs[last.h].email
                        /\ r.username # objs[last.h].username

\* C3: on a User whose password_hash is null, check_password never
\* returns true: it raises or returns false.
C3_NullHashNeverTrue ==
    (last.op = "check_password" /\ objs[last.h].password_hash = None)
        => ~(last.exc = "" /\ last.flag)

C3_Witness ==
    /\ last.op = "check_password"
    /\ last_set[last.h] = None
    /\ objs[last.h].password_hash = None
    /\ last.exc # ""

\* C4 as stated: for every id that encodes an integer, load_user returns
\* the stored User with that primary key, or None without raising.
C4_EveryIntegerId ==
    (last.op = "load_user" /\ EncodesInteger(last.s))
        => /\ last.exc = ""
           /\ IsLiteral(last.s)
                => last.ret = {u \in users :
                                  u.id = Some(LiteralValue(last.s))}

\* C4 amended: for an id that int() converts to n (a decimal literal of
\* at most MaxStrDigits digits), load_user returns the stored User whose
\* primary key is n, or None without raising when there is none; a
\* numeral of more digits raises ValueError.
C4_LoadUserByKey ==
    (last.op = "load_user")
        => /\ IsLiteral(last.s)
                => /\ last.exc = ""
                   /\ last.ret = {u \in users :
                                     u.id = Some(LiteralValue(last.s))}
                   /\ Cardinality(last.ret) <= 1
           /\ last.s = LongId
                => (last.exc = "ValueError" /\ last.ret = None)

C4_Witness ==
    /\ last.op = "load_user"
    /\ last.s = <<1633>>
    /\ last.exc = ""
    /\ \E u \in last.ret : u.id = Some(1) /\ u \in users

C4_WitnessAbsent ==
    /\ last.op = "load_user"
    /\ last.s = Codes(<<"-", "1">>)
    /\ users # {}
    /\ last.exc = ""
    /\ last.ret = None

C8_Step ==
    (last'.op = "load_user")
      => /\ users' = users
         /\ posts' = posts
         /\ objs' = objs
         /\ (last.op = "load_user" /\ last.s = last'.s)
                => (last'.ret = last.ret /\ last'.exc = last.exc)

\* C6: a non-null password_hash differs from the plaintext of the
\* set_password call that produced it.  No reachable state has a non-null
\* password_hash (set_password raises before it assigns), so this holds of
\* the model without any state exercising it.
C6_HashNotPlaintext ==
    \A h \in 1..Len(objs) :
        (objs[h].password_hash # None /\ last_set[h] # None)
            => The(objs[h].password_hash) # The(last_set[h])

C6_NeverHashed == \A h \in 1..Len(objs) : objs[h].password_hash = None

\* C8: load_user leaves every User row and every Post row unchanged, and
\* a second consecutive call with the same id returns what the first did.
C8_LoadUserReadOnly == [][C8_Step]_vars

C8_Witness ==
    /\ last.op = "load_user"
    /\ last.ret # None
    /\ posts # {}
    /\ Cardinality(users) = 2

C9_Raises ==
    (last.op = "load_user" /\ ~EncodesInteger(last.s))
        => (last.exc = "ValueError" /\ last.ret = None)

C9_Frame ==
    (last'.op = "load_user" /\ ~EncodesInteger(last'.s))
        => (users' = users /\ posts' = posts)

\* C9: load_user on a string that encodes no integer raises ValueError,
\* returns neither a User nor None, and leaves the stored rows unchanged.
C9_MalformedIdRaises == []C9_Raises /\ [][C9_Frame]_vars

C9_Witness ==
    /\ last.op = "load_user"
    /\ last.s = Codes(<<"1", "_", "_", "0">>)
    /\ last.exc = "ValueError"
    /\ users # {}
    /\ posts # {}

C10_Step ==
    (last'.op = "set_password")
      => /\ users' = users
         /\ posts' = posts
         /\ Len(objs') = Len(objs)
         /\ \A i \in 1..Len(objs) :
               IF i = last'.h
               THEN /\ objs'[i].id = objs[i].id
                    /\ objs'[i].username = objs[i].username
                    /\ objs'[i].email = objs[i].email
               ELSE objs'[i] = objs[i]

\* C10: set_password changes nothing but the password_hash of the object
\* it is called on: its id, username and email, every other object, the
\* stored User rows and the Post rows stay as they were.
C10_SetPasswordFrame == [][C10_Step]_vars

C10_Witness ==
    /\ last.op = "set_password"
    /\ Len(objs) = 2
    /\ objs[last.h].id # None
    /\ users # {}
    /\ posts # {}

\* C7 as stated: every Post has a non-null user_id that is the id of
\* exactly one stored User (no User row is ever removed here, so this is
\* the condition at its creation).
C7_EveryPostHasAuthor ==
    \A p \in posts :
        /\ p.user_id # None
        /\ Cardinality({u \in users : u.id = p.user_id}) = 1

C7_Step ==
    /\ \A p \in posts' \ posts :
          /\ p.user_id # None
          /\ fk_enforced
                => Cardinality({u \in users : u.id = p.user_id}) = 1
    /\ \A p \in posts : p \in posts'
    /\ (last'.op = "commit_post" /\ last'.exc = "IntegrityError")
          => posts' = posts

\* C7 amended: a Post, when it is created, has a non-null user_id, and an
\* insert with no author is rejected; when the storage engine enforces
\* the declared foreign key, that user_id is the id of exactly one stored
\* User and an insert whose user_id matches no stored User is rejected.
C7_ValidAuthor == [][C7_Step]_vars

C7_Witness ==
    /\ fk_enforced
    /\ posts # {}
    /\ \E p \in posts : p.user_id = Some(2)
    /\ last.op = "commit_post"
    /\ last.exc = "IntegrityError"

C7_WitnessDangling ==
    /\ ~fk_enforced
    /\ \E p \in posts : \A u \in users : u.id # p.user_id

C5_Step ==
    \A p \in posts' \ posts :
        (The(p.id) \in auto_ts') => p.timestamp = now

\* C5 as stated: of two Posts created without a timestamp, the later
\* created has the greater or equal timestamp.
C5_Monotone ==
    \A p1, p2 \in posts :
        (/\ The(p1.id) \in auto_ts
         /\ The(p2.id) \in auto_ts
         /\ The(p1.id) < The(p2.id)) => p1.timestamp <= p2.timestamp

\* C5 amended: a Post created without a timestamp gets the reading of the
\* system clock at its insert, and of two such Posts the later created has
\* the greater or equal timestamp as long as the system clock has not been
\* set back.
C5_DefaultTimestamp ==
    [](~set_back => C5_Monotone) /\ [][C5_Step]_vars

C5_Witness ==
    \E p1, p2 \in posts :
        /\ ~set_back
        /\ The(p1.id) \in auto_ts
        /\ The(p2.id) \in auto_ts
        /\ The(p1.id) < The(p2.id)
        /\ p1.timestamp < p2.timestamp
        /\ p2.timestamp = now

====
